---- MODULE Spec2Model ----
(***************************************************************************)
(* Model of src/dashboard_app.py: one run of the dashboard script, from    *)
(* the choice of the data source to the last chart.  Each action is one    *)
(* section of the script; pc is the script's position.                     *)
(*                                                                         *)
(* Representation.                                                         *)
(*   - A column name is a sequence of characters in which a whole word is  *)
(*     one element and " " is a blank, so that str.strip can be computed.  *)
(*   - A raw numeric cell is [ok, tenths]: ok = FALSE is text that         *)
(*     pd.to_numeric cannot parse, otherwise the decimal tenths/10.        *)
(*     Floats are kept exactly, as integer tenths.                         *)
(*   - A raw date cell is [ok, day, tick]: ok = FALSE is text that         *)
(*     pd.to_datetime cannot parse, otherwise calendar day `day` at time   *)
(*     of day `tick` (0 is midnight).                                      *)
(*   - A Timestamp is [nat, day, tick]; nat = TRUE is pandas' NaT.         *)
(***************************************************************************)
EXTENDS Integers, Sequences, FiniteSets, TLC

\* Bounds of the inputs.
MaxRows == 2
MaxDay == 2

VARIABLES pc, csv, df, products, date_range, start_date, end_date,
          filtered_df, total_rev, bar_rev, daily_rev, outcome, ran

vars == <<pc, csv, df, products, date_range, start_date, end_date,
          filtered_df, total_rev, bar_rev, daily_rev, outcome, ran>>

----------------------------------------------------------------------------
\* Inputs: the CSV files a run may be given.

Days == 1..MaxDay
TimesOfDay == {0, 1}
ProductNames == {"A", "B"}

BadCell == [ok |-> FALSE, tenths |-> 0]
NumCell(k) == [ok |-> TRUE, tenths |-> k]
\* "x", "-3", "2.5"
QuantityCells == {BadCell, NumCell(-30), NumCell(25)}
\* "x", "1.5"
PriceCells == {BadCell, NumCell(15)}

BadDate == [ok |-> FALSE, day |-> 0, tick |-> 0]
DateCells == {BadDate} \cup {[ok |-> TRUE, day |-> d, tick |-> t] : d \in Days, t \in TimesOfDay}

\* The value every cell of a Revenue column of the source holds (9.9); it
\* differs from every Quantity * Price the cells above can give.
SourceRevenue == NumCell(99)

AllRawRows ==
    [Date : DateCells, Product : ProductNames, Quantity : QuantityCells,
     Price : PriceCells, Revenue : {SourceRevenue}]

\* The rows of the files: a row departs from the reference row "day 1 at
\* midnight, A, 2.5, 1.5" in its date, or in its product, or in its quantity
\* and price.
ReferenceDate == [ok |-> TRUE, day |-> 1, tick |-> 0]
RawRows ==
    {r \in AllRawRows :
        \/ r.Product = "A" /\ r.Quantity = NumCell(25) /\ r.Price = NumCell(15)
        \/ r.Date = ReferenceDate /\ r.Quantity = NumCell(25) /\ r.Price = NumCell(15)
        \/ r.Date = ReferenceDate /\ r.Product = "A"}

RECURSIVE SeqsUpTo(_, _)
SeqsUpTo(S, n) ==
    IF n = 0 THEN {<<>>}
    ELSE LET shorter == SeqsUpTo(S, n - 1)
         IN shorter \cup {Append(s, x) : s \in {t \in shorter : Len(t) = n - 1}, x \in S}

RawTables == SeqsUpTo(RawRows, MaxRows)

expected == {<<"Date">>, <<"Product">>, <<"Quantity">>, <<"Price">>}
RequiredOrder == <<"Date", "Product", "Quantity", "Price">>
LowerCase == [n \in {"Date", "Product", "Quantity", "Price"} |->
                CASE n = "Date" -> "date" [] n = "Product" -> "product"
                  [] n = "Quantity" -> "quantity" [] n = "Price" -> "price"]

ColumnName(n, how) ==
    CASE how = "exact" -> <<n>>
      [] how = "padded" -> <<" ", n, " ">>
      [] how = "miscased" -> <<LowerCase[n]>>
      [] how = "absent" -> <<>>

\* The header of a file: the four required columns, one of them possibly
\* padded, miscased or absent, and possibly a Revenue column.
HeaderOf(col, how, rev) ==
    LET names == [i \in 1..4 |->
                    IF RequiredOrder[i] = col THEN ColumnName(col, how)
                    ELSE <<RequiredOrder[i]>>]
    IN SelectSeq(names, LAMBDA c : c # <<>>)
         \o (IF rev THEN << <<"Revenue">> >> ELSE <<>>)

Headers ==
    {HeaderOf(col, how, rev) :
        col \in {"Date", "Product", "Quantity", "Price"},
        how \in {"exact", "padded", "miscased", "absent"},
        rev \in BOOLEAN}

----------------------------------------------------------------------------
\* Helpers.

Range(s) == {s[i] : i \in 1..Len(s)}

\* str.strip on a column name.
RECURSIVE LStrip(_)
LStrip(c) == IF c # <<>> /\ Head(c) = " " THEN LStrip(Tail(c)) ELSE c
RECURSIVE RStrip(_)
RStrip(c) ==
    IF c # <<>> /\ c[Len(c)] = " " THEN RStrip(SubSeq(c, 1, Len(c) - 1)) ELSE c
strip(c) == RStrip(LStrip(c))

\* pd.to_numeric(errors="coerce"): NaN for text that is no number.
to_numeric(cell) ==
    IF cell.ok THEN [nan |-> FALSE, tenths |-> cell.tenths]
    ELSE [nan |-> TRUE, tenths |-> 0]

\* .fillna(0)
fillna0(x) == IF x.nan THEN 0 ELSE x.tenths

\* .astype(int) on a float: truncation towards zero.
astype_int(t) == IF t >= 0 THEN t \div 10 ELSE -((-t) \div 10)

CoerceQuantity(cell) == astype_int(fillna0(to_numeric(cell)))
CoercePrice(cell) == fillna0(to_numeric(cell))

NaT == [nat |-> TRUE, day |-> 0, tick |-> 0]
Timestamp(d, t) == [nat |-> FALSE, day |-> d, tick |-> t]

\* pd.to_datetime(errors="coerce") on a cell of the Date column.
to_datetime(cell) == IF cell.ok THEN Timestamp(cell.day, cell.tick) ELSE NaT

\* Timestamp comparisons; any comparison with NaT is False.
TsLe(a, b) ==
    /\ ~a.nat /\ ~b.nat
    /\ (a.day < b.day \/ (a.day = b.day /\ a.tick <= b.tick))
TsGe(a, b) == TsLe(b, a)


\* Lines 33-37: the stripped column names, and the test for the required ones.
Normalize(cols) == [i \in DOMAIN cols |-> strip(cols[i])]
\* Mutant: some required column is enough.
ColumnsPresentAny(cols) == expected \cap Range(cols) # {}
ColumnsPresent(cols) == expected \subseteq Range(cols)

\* Lines 42-44 on one row.
CoerceRow(r) ==
    LET q == CoerceQuantity(r.Quantity)
        p == CoercePrice(r.Price)
    IN [r EXCEPT !.Quantity = q, !.Price = p, !.Revenue = q * p]

\* Mutant: a Revenue column of the source is kept.
ComputeRevenueKeepSource(d) ==
    IF <<"Revenue">> \in Range(d.columns)
    THEN [d EXCEPT !.rows = [i \in DOMAIN d.rows |->
            [CoerceRow(d.rows[i]) EXCEPT !.Revenue = d.rows[i].Revenue.tenths]]]
    ELSE [columns |-> Append(d.columns, <<"Revenue">>),
          rows |-> [i \in DOMAIN d.rows |-> CoerceRow(d.rows[i])]]

\* Lines 42-44 on the frame: df["Revenue"] = ... replaces a Revenue column
\* the source had, or adds the column.
ComputeRevenue(d) ==
    [columns |-> IF <<"Revenue">> \in Range(d.columns) THEN d.columns
                 ELSE Append(d.columns, <<"Revenue">>),
     rows |-> [i \in DOMAIN d.rows |-> CoerceRow(d.rows[i])]]

\* Line 55 on the frame.
ParseDates(d) ==
    [d EXCEPT !.rows = [i \in DOMAIN d.rows |->
                          [d.rows[i] EXCEPT !.Date = to_datetime(d.rows[i].Date)]]]

\* Lines 56-57: Series.min() and Series.max() skip NaT, and give NaT when
\* nothing is left.
Dated(rows) == {r.Date : r \in {x \in Range(rows) : ~x.Date.nat}}
min_of(rows) ==
    IF Dated(rows) = {} THEN NaT
    ELSE CHOOSE m \in Dated(rows) : \A x \in Dated(rows) : TsLe(m, x)
max_of(rows) ==
    IF Dated(rows) = {} THEN NaT
    ELSE CHOOSE m \in Dated(rows) : \A x \in Dated(rows) : TsLe(x, m)

\* Timestamp.date(), and pd.to_datetime on a calendar date (midnight).
date_of(ts) == [nat |-> ts.nat, day |-> ts.day]
date_to_datetime(d) == [nat |-> d.nat, day |-> d.day, tick |-> 0]

\* Lines 50-51: the products offered by the multiselect.
unique_products(rows) == {r.Product : r \in Range(rows)}

\* Mutant: the conditions joined with | instead of &.
MaskAny(r, sel, s, e) ==
    \/ r.Product \in sel
    \/ TsGe(r.Date, s) /\ TsLe(r.Date, e)

\* Mutant: a row without a date passes the date conditions.
MaskAdmitsNaT(r, sel, s, e) ==
    /\ r.Product \in sel
    /\ r.Date.nat \/ (TsGe(r.Date, s) /\ TsLe(r.Date, e))

\* Lines 62-66: the boolean mask on one row, and the selection.
Mask(r, sel, s, e) ==
    /\ r.Product \in sel
    /\ TsGe(r.Date, s)
    /\ TsLe(r.Date, e)

\* Mutant: the upper bound is taken from the frame (before its last
\* timestamp) instead of end_date.
FilterRowsBeforeLast(rows, sel, s, e) ==
    SelectSeq(rows, LAMBDA r :
        /\ r.Product \in sel
        /\ TsGe(r.Date, s)
        /\ TsLe(r.Date, max_of(rows)) /\ r.Date # max_of(rows))

FilterRows(rows, sel, s, e) == SelectSeq(rows, LAMBDA r : Mask(r, sel, s, e))

\* Line 72: Series.sum(), 0 on an empty frame.
RECURSIVE sum_revenue(_)
sum_revenue(rows) ==
    IF rows = <<>> THEN 0 ELSE Head(rows).Revenue + sum_revenue(Tail(rows))

\* Line 82: sns.barplot with no estimator aggregates each category with the
\* default estimator, the mean.  A bar is kept as the exact fraction num/den.
barplot(rows) ==
    [p \in unique_products(rows) |->
        LET mine == SelectSeq(rows, LAMBDA r : r.Product = p)
        IN [num |-> sum_revenue(mine), den |-> Len(mine)]]

\* Line 88: groupby(Date.dt.date).sum().reset_index(): one line per calendar
\* date, NaT keys dropped, keys sorted ascending.
RECURSIVE sort_asc(_)
sort_asc(S) ==
    IF S = {} THEN <<>>
    ELSE LET m == CHOOSE x \in S : \A y \in S : x <= y
         IN <<m>> \o sort_asc(S \ {m})

groupby_date(rows) ==
    LET keys == sort_asc({ts.day : ts \in Dated(rows)})
    IN [i \in DOMAIN keys |->
          [Date |-> keys[i],
           Revenue |-> sum_revenue(SelectSeq(rows,
                          LAMBDA r : ~r.Date.nat /\ r.Date.day = keys[i]))]]

----------------------------------------------------------------------------
\* The run.

NoFrame == [columns |-> <<>>, rows |-> <<>>]
NoDate == [nat |-> TRUE, day |-> 0]

Init ==
    /\ pc = "source"
    /\ csv = NoFrame
    /\ df = NoFrame
    /\ products = {}
    /\ date_range = <<NoDate, NoDate>>
    /\ start_date = NaT
    /\ end_date = NaT
    /\ filtered_df = <<>>
    /\ total_rev = 0
    /\ bar_rev = <<>>
    /\ daily_rev = <<>>
    /\ outcome = "none"
    /\ ran = {}

\* Lines 22-27: a file was uploaded or sales_data.csv exists; load_csv reads it.
LoadData ==
    /\ pc = "source"
    /\ \E h \in Headers, t \in RawTables :
         /\ csv' = [columns |-> h, rows |-> t]
         /\ df' = [columns |-> h, rows |-> t]
    /\ pc' = "validate"
    /\ ran' = ran \cup {"load"}
    /\ UNCHANGED <<products, date_range, start_date, end_date, filtered_df,
                   total_rev, bar_rev, daily_rev, outcome>>

\* Lines 28-30: no upload and no sales_data.csv: st.warning, st.stop().
NoSource ==
    /\ pc = "source"
    /\ outcome' = "MissingSource"
    /\ pc' = "stopped"
    /\ UNCHANGED <<csv, df, products, date_range, start_date, end_date,
                   filtered_df, total_rev, bar_rev, daily_rev, ran>>

\* Lines 32-39: strip the column names; st.error and st.stop() when a
\* required column is missing.
Validate ==
    /\ pc = "validate"
    /\ df' = [df EXCEPT !.columns = Normalize(df.columns)]
    /\ ran' = ran \cup {"validate"}
    /\ IF ColumnsPresent(Normalize(df.columns))
       THEN pc' = "revenue" /\ outcome' = outcome
       ELSE pc' = "stopped" /\ outcome' = "ValidationError"
    /\ UNCHANGED <<csv, products, date_range, start_date, end_date,
                   filtered_df, total_rev, bar_rev, daily_rev>>

\* Lines 41-44.
Revenue ==
    /\ pc = "revenue"
    /\ df' = ComputeRevenue(df)
    /\ pc' = "sidebar"
    /\ ran' = ran \cup {"revenue"}
    /\ UNCHANGED <<csv, products, date_range, start_date, end_date,
                   filtered_df, total_rev, bar_rev, daily_rev, outcome>>

\* Lines 46-59 when some date parsed: the user's product selection (any
\* subset of the options; the default is all of them) and date range (any
\* two days; the default is the first and last day of the data).
SidebarFilters ==
    /\ pc = "sidebar"
    /\ LET d == ParseDates(df) IN
         /\ ~min_of(d.rows).nat
         /\ df' = d
         /\ \E sel \in SUBSET unique_products(df.rows) : products' = sel
         /\ \E s \in Days, e \in Days :
              LET picked == <<[nat |-> FALSE, day |-> s], [nat |-> FALSE, day |-> e]>>
              IN /\ date_range' = picked
                 /\ start_date' = date_to_datetime(picked[1])
                 /\ end_date' = date_to_datetime(picked[2])
    /\ pc' = "filter"
    /\ ran' = ran \cup {"sidebar"}
    /\ UNCHANGED <<csv, filtered_df, total_rev, bar_rev, daily_rev, outcome>>

\* Lines 46-59 when no date parsed (or the file has no rows): min_date and
\* max_date are NaT, and st.date_input is given (NaT, NaT) as its value.
\* The script has no guard for this; what the widget does with NaT is not
\* decided by the script: either it raises, or it hands back the NaT pair.
SidebarFiltersNoDates ==
    /\ pc = "sidebar"
    /\ LET d == ParseDates(df) IN
         /\ min_of(d.rows).nat
         /\ df' = d
         /\ \E sel \in SUBSET unique_products(df.rows) : products' = sel
         /\ \/ /\ pc' = "raised"
               /\ outcome' = "Exception"
               /\ UNCHANGED <<date_range, start_date, end_date>>
            \/ /\ pc' = "filter"
               /\ outcome' = outcome
               /\ date_range' = <<date_of(min_of(d.rows)), date_of(max_of(d.rows))>>
               /\ start_date' = date_to_datetime(date_of(min_of(d.rows)))
               /\ end_date' = date_to_datetime(date_of(max_of(d.rows)))
    /\ ran' = ran \cup {"sidebar"}
    /\ UNCHANGED <<csv, filtered_df, total_rev, bar_rev, daily_rev>>

\* Lines 61-66.
ApplyFilters ==
    /\ pc = "filter"
    /\ filtered_df' = FilterRows(df.rows, products, start_date, end_date)
    /\ pc' = "summary"
    /\ ran' = ran \cup {"filter"}
    /\ UNCHANGED <<csv, df, products, date_range, start_date, end_date,
                   total_rev, bar_rev, daily_rev, outcome>>

\* Lines 68-77: the table, the total and the download button.
Summary ==
    /\ pc = "summary"
    /\ total_rev' = sum_revenue(filtered_df)
    /\ pc' = "charts"
    /\ ran' = ran \cup {"summary"}
    /\ UNCHANGED <<csv, df, products, date_range, start_date, end_date,
                   filtered_df, bar_rev, daily_rev, outcome>>

\* Lines 79-92: the bar chart and the daily trend.
Visualizations ==
    /\ pc = "charts"
    /\ bar_rev' = barplot(filtered_df)
    /\ daily_rev' = groupby_date(filtered_df)
    /\ pc' = "done"
    /\ ran' = ran \cup {"charts"}
    /\ UNCHANGED <<csv, df, products, date_range, start_date, end_date,
                   filtered_df, total_rev, outcome>>

Next ==
    \/ LoadData
    \/ NoSource
    \/ Validate
    \/ Revenue
    \/ SidebarFilters
    \/ SidebarFiltersNoDates
    \/ ApplyFilters
    \/ Summary
    \/ Visualizations

Spec == Init /\ [][Next]_vars


----------------------------------------------------------------------------
\* The properties checked of the run.

AfterRevenue == {"sidebar", "filter", "summary", "charts", "done", "raised"}
AfterFilter == {"summary", "charts", "done"}
LaterStages == {"revenue", "sidebar", "filter", "summary", "charts"}

\* Full criteria: every product of the data, and the first to the last day
\* of the data.
FullCriteria ==
    /\ products = unique_products(df.rows)
    /\ date_range = <<date_of(min_of(df.rows)), date_of(max_of(df.rows))>>

\* C1 (as claimed): under the full criteria the total revenue of the view is
\* the total revenue of the whole dataset, null-date rows included.
C1_FullCriteriaKeepTotal ==
    (pc = "done" /\ FullCriteria /\ ~date_range[1].nat) =>
        total_rev = sum_revenue(df.rows)

\* C2: after coercion every row has revenue = quantity * price, a malformed
\* quantity or price is 0, a well-formed price is kept, no row is dropped,
\* and a Revenue column of the source is never what the row holds.
C2_RevenueRecomputed ==
    pc \in AfterRevenue =>
        /\ Len(df.rows) = Len(csv.rows)
        /\ \A i \in DOMAIN df.rows :
             LET r == df.rows[i]
                 raw == csv.rows[i]
             IN /\ r.Revenue = r.Quantity * r.Price
                /\ (~raw.Quantity.ok => r.Quantity = 0)
                /\ (~raw.Price.ok => r.Price = 0)
                /\ (raw.Price.ok => r.Price = raw.Price.tenths)

C2_Witness ==
    /\ pc = "done"
    /\ <<"Revenue">> \in Range(csv.columns)
    /\ \E i \in DOMAIN csv.rows : ~csv.rows[i].Quantity.ok
    /\ \E i \in DOMAIN df.rows : df.rows[i].Revenue # 0

\* The view the claim describes: the rows with a selected product and a
\* non-null date whose calendar day is within [start, end], in order.
InCalendarRange(r) ==
    /\ r.Product \in products
    /\ ~r.Date.nat
    /\ date_range[1].day <= r.Date.day
    /\ r.Date.day <= date_range[2].day

\* C3 (as claimed): the view is exactly the rows with a selected product and
\* a date within [start, end], both days inclusive, in the dataset's order.
C3_ViewIsCalendarRange ==
    (pc \in AfterFilter /\ ~date_range[1].nat) =>
        filtered_df = SelectSeq(df.rows, InCalendarRange)

\* C4: a run whose stripped column names lack a required column ends in the
\* ValidationError state having run no later stage and left the rows as
\* loaded; a run whose stripped names hold them all never ends there.
C4_MissingColumnsHalt ==
    LET missing == ~(expected \subseteq {strip(c) : c \in Range(csv.columns)})
    IN (pc \notin {"source", "validate"} /\ outcome # "MissingSource") =>
          /\ missing => /\ pc = "stopped"
                        /\ outcome = "ValidationError"
                        /\ ran \cap LaterStages = {}
                        /\ df.rows = csv.rows
          /\ ~missing => outcome # "ValidationError"

C4_Witness ==
    /\ outcome = "ValidationError"
    /\ csv.rows # <<>>
    /\ Len(csv.columns) < 4

\* C5 (as claimed): a valid file whose dates are all unparseable ends
\* without a raised error, with an empty view, total 0 and no daily line.
C5_AllNullDatesNoError ==
    (/\ pc \in {"done", "raised"}
     /\ csv.rows # <<>>
     /\ \A i \in DOMAIN csv.rows : ~csv.rows[i].Date.ok) =>
        /\ pc = "done"
        /\ filtered_df = <<>>
        /\ total_rev = 0
        /\ daily_rev = <<>>

Inverted == ~date_range[1].nat /\ date_range[1].day > date_range[2].day

\* C6: with no product selected, or with start after end, the run ends with
\* no error, an empty view, total 0 and no daily line.
C6_EmptyCriteriaEmptyView ==
    (pc = "done" /\ (products = {} \/ Inverted)) =>
        /\ outcome = "none"
        /\ filtered_df = <<>>
        /\ total_rev = 0
        /\ daily_rev = <<>>

C6_Witness ==
    /\ pc = "done"
    /\ Inverted
    /\ \E i \in DOMAIN df.rows :
         df.rows[i].Product \in products /\ df.rows[i].Revenue # 0

\* C7 (as claimed): the bar of each product of the view is the sum of the
\* revenue of the view's rows of that product, and no other product has one.
C7_BarIsSum ==
    pc = "done" =>
        /\ DOMAIN bar_rev = unique_products(filtered_df)
        /\ \A p \in DOMAIN bar_rev :
             bar_rev[p].num =
                bar_rev[p].den
                  * sum_revenue(SelectSeq(filtered_df, LAMBDA r : r.Product = p))

\* C8: filtering the view again with the same criteria gives the view.
C8_FilterIdempotent ==
    pc \in AfterFilter =>
        FilterRows(filtered_df, products, start_date, end_date) = filtered_df

C8_Witness ==
    /\ pc = "summary"
    /\ filtered_df # <<>>
    /\ Len(filtered_df) < Len(df.rows)

\* C9 (as claimed): after coercion no row has a negative quantity or price.
C9_NonNegative ==
    pc \in AfterRevenue =>
        \A i \in DOMAIN df.rows :
            df.rows[i].Quantity >= 0 /\ df.rows[i].Price >= 0

\* C10: no row of the view has a null date, the daily sums add up to the
\* total, and the daily lines are the view's calendar days, ascending.
C10_DailySumsToTotal ==
    pc = "done" =>
        /\ \A i \in DOMAIN filtered_df : ~filtered_df[i].Date.nat
        /\ sum_revenue(daily_rev) = total_rev
        /\ {daily_rev[i].Date : i \in DOMAIN daily_rev}
             = {filtered_df[i].Date.day : i \in DOMAIN filtered_df}
        /\ \A i, j \in DOMAIN daily_rev :
             i < j => daily_rev[i].Date < daily_rev[j].Date

C10_Witness ==
    /\ pc = "done"
    /\ filtered_df # <<>>
    /\ total_rev # 0
    /\ \E i \in DOMAIN df.rows :
         /\ df.rows[i].Date.nat
         /\ df.rows[i].Product \in products
         /\ df.rows[i].Revenue # 0

====
